---- MODULE Spec2Model ----
(***************************************************************************)
(* Anchor matching and instance padding of the YOLO data loader            *)
(* (yolo/dataloaders/preprocessing_ops.py).                                *)
(*                                                                         *)
(* A tensor of rank 2 is a record [shape |-> <<rows, cols>>, data |-> a    *)
(* sequence of `rows` rows of `cols` entries].  Lengths are exact          *)
(* rationals: a normalised length is an integer count of 1/Grid of the     *)
(* image side, an overlap is a pair <<intersection, union>>.  Anchor       *)
(* indices are 0-based as in the code.  Rows are built as tuples           *)
(* (f \o <<>>) so that an entry is computed once.                          *)
(***************************************************************************)
EXTENDS Integers, Sequences, FiniteSets, TLC

VARIABLES pc, y_true, anchors, iou_raw, iou_index, instances, pad_value,
          padded_boxes, padded_anchors, image, t_x, t_y

vars == <<pc, y_true, anchors, iou_raw, iou_index, instances, pad_value,
          padded_boxes, padded_anchors, image, t_x, t_y>>

\* ---------------------------------------------------------------- bounds
MaxBoxes == 2
MaxAnchors == 6
MaxInstances == 3

\* ------------------------------------------------------ program constants
\* reference resolution the anchor catalog is given at (Parser.image_w/h)
image_w == 416
image_h == 416
\* width of an anchor assignment (while num_k < 5, iou_index[..., :5])
NumSlots == 5
\* the sentinel column (tf.zeros(...) - 1)
Sentinel == -1
\* tf.reduce_max of an empty float tensor is -inf; any value below 0 acts alike
NegInf == -1
\* iou_raw > 0.213, as the exact rational 213/1000
IouThresh == <<213, 1000>>

\* normalised lengths are counted in 1/Grid of the image side
Grid == 25 * image_w

\* ----------------------------------------------------------------- inputs
\* box shapes (w, h) in 1/Grid and anchor shapes (w, h) in pixels.  Against
\* the anchors below the first box has overlaps 1, 213/1000 and 1/3, the
\* second 213/1000, 1 and 71/1000.
BoxShapes == {<<1775, 75>>, <<2500, 250>>}
AnchorShapes == {<<71, 3>>, <<100, 10>>, <<71, 1>>}
PadValues == {0, -1}
\* offsets drawn by random_translate, in 1/Grid, within [-jitter_im, jitter_im)
jitter_im == Grid \div 10
Offsets == {o \in {0 - 1000, 0 - 500, 0, 500, 1000} : 0 - jitter_im <= o /\ o < jitter_im}

Boxes == {<<Grid \div 2, Grid \div 2, s[1], s[2]>> : s \in BoxShapes}

\* the catalog [[10,13],[16,30],[33,23]] (pixels at 416x416) and the box
\* (cx, cy, w, h) = (0.5, 0.5, 0.05, 0.07) in 1/Grid; the same box with a
\* negative width and with a negative height
ScenarioCatalog == <<<<10, 13>>, <<16, 30>>, <<33, 23>>>>
ScenarioBox == <<Grid \div 2, Grid \div 2, Grid \div 20, (7 * Grid) \div 100>>
NegativeWidthBox == <<ScenarioBox[1], ScenarioBox[2], 0 - ScenarioBox[3], ScenarioBox[4]>>
NegativeHeightBox == <<ScenarioBox[1], ScenarioBox[2], ScenarioBox[3], 0 - ScenarioBox[4]>>
ScenarioBoxes == {ScenarioBox, NegativeWidthBox, NegativeHeightBox}
ScenarioAnchors == {ScenarioCatalog[i] : i \in 1..Len(ScenarioCatalog)}

SeqsUpTo(S, n) == UNION {[1..m -> S] : m \in 0..n}

\* ---------------------------------------------------------------- tensors
\* the tensor of the given shape whose entry (i, j) is f[i, j]
Tensor(rows, cols, f) ==
    [shape |-> <<rows, cols>>,
     data  |-> [i \in 1..rows |-> [j \in 1..cols |-> f[i, j]] \o <<>>] \o <<>>]

EmptyTensor == [shape |-> <<0, 0>>, data |-> <<>>]

\* tf.transpose(t, perm=[1, 0])
Transpose(t) ==
    Tensor(t.shape[2], t.shape[1], [j \in Nat, i \in Nat |-> t.data[i][j]])

\* tf.concat([a, b], axis=0)
ConcatRows(a, b) ==
    [shape |-> <<a.shape[1] + b.shape[1], a.shape[2]>>,
     data  |-> a.data \o b.data]

\* tf.concat([a, b], axis=-1)
ConcatCols(a, b) ==
    [shape |-> <<a.shape[1], a.shape[2] + b.shape[2]>>,
     data  |-> [i \in 1..a.shape[1] |-> a.data[i] \o b.data[i]] \o <<>>]

\* variant of SliceCols: t[..., -n:], the last n columns
SliceCols_Last(t, n) ==
    LET c == IF t.shape[2] < n THEN t.shape[2] ELSE n IN
    [shape |-> <<t.shape[1], c>>,
     data  |-> [i \in 1..t.shape[1] |->
                  SubSeq(t.data[i], t.shape[2] - c + 1, t.shape[2])] \o <<>>]

\* t[..., :n]
SliceCols(t, n) ==
    LET c == IF t.shape[2] < n THEN t.shape[2] ELSE n IN
    [shape |-> <<t.shape[1], c>>,
     data  |-> [i \in 1..t.shape[1] |-> SubSeq(t.data[i], 1, c)] \o <<>>]

\* ------------------------------------------------------ exact comparisons
\* a/b < c/d for b, d > 0, by continued fractions (no products); \div is the
\* floor and % the remainder in 0..b-1, also for a negative numerator
RECURSIVE RatLess(_, _, _, _)
RatLess(a, b, c, d) ==
    LET qa == a \div b
        qc == c \div d
        ra == a % b
        rc == c % d
    IN  IF qa # qc THEN qa < qc
        ELSE IF rc = 0 THEN FALSE
        ELSE IF ra = 0 THEN TRUE
        ELSE RatLess(d, rc, b, ra)

\* u > v on overlaps
Greater(u, v) == RatLess(v[1], v[2], u[1], u[2])

Min(a, b) == IF a < b THEN a ELSE b

\* --------------------------------------------------------- overlap engine
\* IoU of two (x, y, w, h) boxes sharing their centre:
\* min(w) * min(h) / (area1 + area2 - intersection), 0 when the union is empty.
\* The quotient is kept with a positive denominator (a negative width or
\* height makes the areas negative; nothing rejects it).
compute_iou(box1, box2) ==
    LET intersection == Min(box1[3], box2[3]) * Min(box1[4], box2[4])
        union == box1[3] * box1[4] + box2[3] * box2[4] - intersection
    IN  IF union = 0 THEN <<0, 1>>
        ELSE IF union < 0 THEN <<0 - intersection, 0 - union>>
        ELSE <<intersection, union>>

\* variant of ScaleAnchors: the two anchor columns are exchanged
ScaleAnchors_Swapped(anchor_list, width, height) ==
    Tensor(Len(anchor_list), 2,
           [i \in Nat, j \in Nat |->
               IF j = 1 THEN anchor_list[i][2] * (Grid \div width)
                        ELSE anchor_list[i][1] * (Grid \div height)])

\* anchors[..., 0] / width, anchors[..., 1] / height: pixels to 1/Grid
ScaleAnchors(anchor_list, width, height) ==
    Tensor(Len(anchor_list), 2,
           [i \in Nat, j \in Nat |->
               IF j = 1 THEN anchor_list[i][1] * (Grid \div width)
                        ELSE anchor_list[i][2] * (Grid \div height)])

\* every anchor shape placed on the centre of every box: [A, B] boxes
AnchorBoxes(boxes, scaled) ==
    Tensor(scaled.shape[1], Len(boxes),
           [a \in Nat, b \in Nat |->
               <<boxes[b][1], boxes[b][2], scaled.data[a][1], scaled.data[a][2]>>])

\* the ground truth copied once per anchor: [A, B] boxes
TruthComp(boxes, num_anchors) ==
    Tensor(num_anchors, Len(boxes), [a \in Nat, b \in Nat |-> boxes[b]])

\* iou_raw = compute_iou(truth_comp, anchors), shape [A, B]
IouRaw(truth_comp, anchor_boxes) ==
    Tensor(truth_comp.shape[1], truth_comp.shape[2],
           [a \in Nat, b \in Nat |->
               compute_iou(truth_comp.data[a][b], anchor_boxes.data[a][b])])

\* --------------------------------------------------------- anchor matcher
\* variant of OverThreshold: v >= 0.213
OverThreshold_AtLeast(v) == IF Greater(IouThresh, v) THEN 0 ELSE 1

\* tf.cast(v > 0.213, dtype) on one entry: 1 where v exceeds the threshold
OverThreshold(v) == IF Greater(v, IouThresh) THEN 1 ELSE 0

\* gt_mask, ind_mask: the cast comparison over a tensor
ThresholdMask(t) ==
    Tensor(t.shape[1], t.shape[2],
           [i \in Nat, j \in Nat |-> OverThreshold(t.data[i][j])])

RECURSIVE SumSeq(_)
SumSeq(s) == IF s = <<>> THEN 0 ELSE Head(s) + SumSeq(Tail(s))

\* tf.reduce_sum(t, axis=1)
ReduceSumRows(t) == [i \in 1..t.shape[1] |-> SumSeq(t.data[i])] \o <<>>

\* tf.reduce_max over a vector
ReduceMax(s) ==
    IF s = <<>> THEN NegInf
    ELSE CHOOSE m \in {s[i] : i \in 1..Len(s)} : \A i \in 1..Len(s) : s[i] <= m

\* variant of NumK: the smallest per-box count (tf.reduce_min)
NumK_Min(iou) ==
    LET sums == ReduceSumRows(Transpose(ThresholdMask(iou)))
        num_k == IF sums = <<>> THEN NegInf
                 ELSE CHOOSE m \in {sums[i] : i \in 1..Len(sums)} :
                          \A i \in 1..Len(sums) : m <= sums[i]
    IN  IF num_k <= 0 THEN 1 ELSE num_k

\* variant of NumK: without the floor (if num_k <= 0: num_k = 1.0)
NumK_NoFloor(iou) ==
    ReduceMax(ReduceSumRows(Transpose(ThresholdMask(iou))))

\* num_k: the largest per-box count of accepted anchors, floor 1
NumK(iou) ==
    LET gt_mask == ThresholdMask(iou)
        num_k == ReduceMax(ReduceSumRows(Transpose(gt_mask)))
    IN  IF num_k <= 0 THEN 1 ELSE num_k

\* variant of Before: equal values by higher index
Before_HigherFirst(row, i, j) ==
    \/ Greater(row[i], row[j])
    \/ (~Greater(row[j], row[i]) /\ i > j)

\* the 1-based position i of a row comes before position j in tf.math.top_k's
\* order: larger value first, equal values by lower index
Before(row, i, j) ==
    \/ Greater(row[i], row[j])
    \/ (~Greater(row[j], row[i]) /\ i < j)

\* insert position i into the ranked list of positions
RECURSIVE InsertRanked(_, _, _)
InsertRanked(row, ranked, i) ==
    IF ranked = <<>> THEN <<i>>
    ELSE IF Before(row, i, Head(ranked)) THEN <<i>> \o ranked
    ELSE <<Head(ranked)>> \o InsertRanked(row, Tail(ranked), i)

RECURSIVE RankedUpTo(_, _)
RankedUpTo(row, n) ==
    IF n = 0 THEN <<>> ELSE InsertRanked(row, RankedUpTo(row, n - 1), n)

\* tf.math.top_k(t, k, sorted=True) on a [B, A] tensor
top_k(t, k) ==
    LET ranked == [b \in 1..t.shape[1] |->
                     SubSeq(RankedUpTo(t.data[b], t.shape[2]), 1, k)] \o <<>>
    IN
    [values  |-> Tensor(t.shape[1], k,
                        [b \in Nat, p \in Nat |-> t.data[b][ranked[b][p]]]),
     indexes |-> Tensor(t.shape[1], k,
                        [b \in Nat, p \in Nat |-> ranked[b][p] - 1])]

\* top_k needs k columns; indexes[..., 0] needs one column
TopKFails(t, k) == k < 1 \/ k > t.shape[2]

\* variant of MaskIndexes: the mask applied to slot 0 as well
MaskIndexes_AllSlots(values, indexes) ==
    Tensor(indexes.shape[1], indexes.shape[2],
           [b \in Nat, p \in Nat |->
               (indexes.data[b][p] + 1) * OverThreshold(values.data[b][p]) - 1])

\* variant of MaskIndexes: the indexes of top_k kept as they are
MaskIndexes_NoMask(values, indexes) ==
    Tensor(indexes.shape[1], indexes.shape[2],
           [b \in Nat, p \in Nat |-> indexes.data[b][p]])

\* variant of MaskIndexes: indexes * ind_mask, without the shift by one
MaskIndexes_NoShift(values, indexes) ==
    Tensor(indexes.shape[1], indexes.shape[2],
           [b \in Nat, p \in Nat |->
               IF p = 1 THEN indexes.data[b][1]
               ELSE indexes.data[b][p] * OverThreshold(values.data[b][p])])

\* slot 0 is indexes[..., 0]; slot p >= 1 is (indexes + 1) * ind_mask - 1
MaskIndexes(values, indexes) ==
    Tensor(indexes.shape[1], indexes.shape[2],
           [b \in Nat, p \in Nat |->
               IF p = 1 THEN indexes.data[b][1]
               ELSE (indexes.data[b][p] + 1) * OverThreshold(values.data[b][p]) - 1])

\* stack: tf.zeros([rows, 1]) - 1
SentinelColumn(rows) ==
    Tensor(rows, 1, [b \in Nat, p \in Nat |-> 0 + Sentinel])

\* variant of PadSlots: without the final iou_index[..., :5]
RECURSIVE PadSlots_NoSlice(_, _)
PadSlots_NoSlice(t, num_k) ==
    IF num_k < NumSlots
    THEN PadSlots_NoSlice(ConcatCols(t, SentinelColumn(t.shape[1])), num_k + 1)
    ELSE t

\* while num_k < 5: append the sentinel column; then iou_index[..., :5]
RECURSIVE PadSlots(_, _)
PadSlots(t, num_k) ==
    IF num_k < NumSlots
    THEN PadSlots(ConcatCols(t, SentinelColumn(t.shape[1])), num_k + 1)
    ELSE SliceCols(t, NumSlots)

\* -------------------------------------------------------- instance padder
\* variant of pad_max_instances: nshape[0] = instances, not instances - dim1
pad_max_instances_NoSubtract(value, max_instances, pad) ==
    IF value.shape[1] > max_instances
    THEN [shape |-> <<max_instances, value.shape[2]>>,
          data  |-> SubSeq(value.data, 1, max_instances)]
    ELSE ConcatRows(value, Tensor(max_instances, value.shape[2],
                                  [i \in Nat, j \in Nat |-> 1 * pad]))

\* variant of pad_max_instances: value[-instances:], the last items kept
pad_max_instances_KeepLast(value, max_instances, pad) ==
    IF value.shape[1] > max_instances
    THEN [shape |-> <<max_instances, value.shape[2]>>,
          data  |-> SubSeq(value.data, value.shape[1] - max_instances + 1,
                           value.shape[1])]
    ELSE ConcatRows(value, Tensor(max_instances - value.shape[1], value.shape[2],
                                  [i \in Nat, j \in Nat |-> 1 * pad]))

\* variant of pad_max_instances: nshape[0] = instances - dim1 + 1
pad_max_instances_OffByOne(value, max_instances, pad) ==
    IF value.shape[1] > max_instances
    THEN [shape |-> <<max_instances, value.shape[2]>>,
          data  |-> SubSeq(value.data, 1, max_instances)]
    ELSE ConcatRows(value, Tensor(max_instances - value.shape[1] + 1,
                                  value.shape[2], [i \in Nat, j \in Nat |-> 1 * pad]))

\* value[:instances] when dim1 > instances, else value followed by
\* instances - dim1 rows of ones * pad_value
pad_max_instances(value, max_instances, pad) ==
    LET shape == value.shape
        dim1 == shape[1]
    IN  IF dim1 > max_instances
        THEN [shape |-> <<max_instances, shape[2]>>,
              data  |-> SubSeq(value.data, 1, max_instances)]
        ELSE LET pad_tensor == Tensor(max_instances - dim1, shape[2],
                                      [i \in Nat, j \in Nat |-> 1 * pad])
             IN  ConcatRows(value, pad_tensor)

\* ------------------------------------------------------------- translation
\* an image of the configured size; offset is the displacement of its
\* content in pixels, <<0, 0>> as loaded
NewImage == [shape |-> <<image_h, image_w>>, offset |-> <<0, 0>>]

\* tfa.image.translate(image, <<dx, dy>>): the content moved by dx, dy pixels
ImageTranslate(img, d) ==
    [img EXCEPT !.offset = <<img.offset[1] + d[1], img.offset[2] + d[2]>>]

\* translate_x (1/Grid) * tf.shape(image)[1], in pixels
JitterPixels(img, t) == (t * img.shape[2]) \div Grid

\* x + translate_x, y + translate_y; width and height as they are
translate_boxes(box, translate_x, translate_y) ==
    [i \in 1..Len(box) |->
        <<box[i][1] + translate_x, box[i][2] + translate_y, box[i][3], box[i][4]>>]

\* the image is translated if translate_x != 0 and translate_y != 0
translate_image(img, translate_x, translate_y) ==
    IF translate_x # 0 /\ translate_y # 0
    THEN ImageTranslate(img, <<JitterPixels(img, translate_x),
                               JitterPixels(img, translate_y)>>)
    ELSE img

\* ----------------------------------------------------------------- system
BoxTensor(boxes) == Tensor(Len(boxes), 4, [i \in Nat, j \in Nat |-> boxes[i][j]])

Init ==
    /\ pc = "start"
    /\ y_true \in SeqsUpTo(Boxes, MaxBoxes)
    /\ anchors \in SeqsUpTo(AnchorShapes, MaxAnchors)
    /\ iou_raw = EmptyTensor
    /\ iou_index = EmptyTensor
    /\ instances = 0
    /\ pad_value = 0
    /\ padded_boxes = EmptyTensor
    /\ padded_anchors = EmptyTensor
    /\ image = NewImage
    /\ t_x = 0
    /\ t_y = 0

\* get_best_anchor(boxes, anchor_list, width, height) returns result: the
\* stages of the call on arguments of its own, each bound once
get_best_anchor(boxes, anchor_list, width, height, result) ==
    \E scaled \in {ScaleAnchors(anchor_list, width, height)} :
    \E anchor_boxes \in {AnchorBoxes(boxes, scaled)} :
    \E truth_comp \in {TruthComp(boxes, scaled.shape[1])} :
    \E iou \in {IouRaw(truth_comp, anchor_boxes)} :
    \E num_k \in {NumK(iou)} :
    \E overlaps \in {Transpose(iou)} :
       /\ ~TopKFails(overlaps, num_k)
       /\ \E top \in {top_k(overlaps, num_k)} :
          \E masked \in {MaskIndexes(top.values, top.indexes)} :
             result = PadSlots(masked, num_k)

\* get_best_anchor(y_true, anchors, width, height).  Each stage is bound
\* once (\E over a singleton) and handed to the next, as the code's locals.
GetBestAnchor ==
    /\ pc = "start"
    /\ \E scaled \in {ScaleAnchors(anchors, image_w, image_h)} :
       \E anchor_boxes \in {AnchorBoxes(y_true, scaled)} :
       \E truth_comp \in {TruthComp(y_true, scaled.shape[1])} :
       \E iou \in {IouRaw(truth_comp, anchor_boxes)} :
       \E num_k \in {NumK(iou)} :
       \E overlaps \in {Transpose(iou)} :
         /\ iou_raw' = iou
         /\ IF TopKFails(overlaps, num_k)
            THEN pc' = "error" /\ iou_index' = EmptyTensor
            ELSE \E top \in {top_k(overlaps, num_k)} :
                 \E masked \in {MaskIndexes(top.values, top.indexes)} :
                    /\ pc' = "matched"
                    /\ iou_index' = PadSlots(masked, num_k)
    /\ UNCHANGED <<y_true, anchors, instances, pad_value,
                   padded_boxes, padded_anchors, image, t_x, t_y>>

\* the boxes and their anchor assignment padded to the same instance count
PadInstances ==
    /\ pc = "matched"
    /\ \E n \in 0..MaxInstances, p \in PadValues :
         /\ instances' = n
         /\ pad_value' = p
         /\ padded_boxes' = pad_max_instances(BoxTensor(y_true), n, p)
         /\ padded_anchors' = pad_max_instances(iou_index, n, p)
    /\ pc' = "padded"
    /\ UNCHANGED <<y_true, anchors, iou_raw, iou_index, image, t_x, t_y>>

Next == GetBestAnchor \/ PadInstances

Spec == Init /\ [][Next]_vars

\* the same calls on the scenario catalog, its sub-catalogs and reorderings,
\* with well-formed and malformed boxes
InitScenario ==
    /\ pc = "start"
    /\ y_true \in SeqsUpTo(ScenarioBoxes, MaxBoxes)
    /\ anchors \in SeqsUpTo(ScenarioAnchors, Len(ScenarioCatalog))
    /\ iou_raw = EmptyTensor
    /\ iou_index = EmptyTensor
    /\ instances = 0
    /\ pad_value = 0
    /\ padded_boxes = EmptyTensor
    /\ padded_anchors = EmptyTensor
    /\ image = NewImage
    /\ t_x = 0
    /\ t_y = 0

SpecScenario == InitScenario /\ [][Next]_vars

\* random_translate(image, box, t) on the boxes of an image
InitTranslate ==
    /\ pc = "start"
    /\ y_true \in SeqsUpTo(Boxes, MaxBoxes)
    /\ anchors = <<>>
    /\ iou_raw = EmptyTensor
    /\ iou_index = EmptyTensor
    /\ instances = 0
    /\ pad_value = 0
    /\ padded_boxes = EmptyTensor
    /\ padded_anchors = EmptyTensor
    /\ image = NewImage
    /\ t_x = 0
    /\ t_y = 0

RandomTranslate ==
    /\ pc = "start"
    /\ \E tx \in Offsets, ty \in Offsets :
         /\ t_x' = tx
         /\ t_y' = ty
         /\ y_true' = translate_boxes(y_true, tx, ty)
         /\ image' = translate_image(image, tx, ty)
    /\ pc' = "translated"
    /\ UNCHANGED <<anchors, iou_raw, iou_index, instances, pad_value,
                   padded_boxes, padded_anchors>>

NextTranslate == RandomTranslate

SpecTranslate == InitTranslate /\ [][NextTranslate]_vars

\* ------------------------------------------------------------ properties
NumBoxes == Len(y_true)
NumAnchors == Len(anchors)
\* get_best_anchor has just returned; padding leaves its result as it is
Returned == pc = "matched"

\* overlap of box b (1-based) and anchor a (0-based, as in the result)
Overlap(b, a) == iou_raw.data[a + 1][b]
Exceeds(b, a) == Greater(Overlap(b, a), IouThresh)
AtThreshold(b, a) ==
    ~Greater(Overlap(b, a), IouThresh) /\ ~Greater(IouThresh, Overlap(b, a))
SameOverlap(b, a1, a2) ==
    ~Greater(Overlap(b, a1), Overlap(b, a2)) /\ ~Greater(Overlap(b, a2), Overlap(b, a1))

\* the number of anchors whose overlap with box b exceeds the threshold
KAccepted(b) == Cardinality({a \in 0..NumAnchors - 1 : Exceeds(b, a)})
\* k, the largest such number over the boxes, is greater than n
KOver(n) == \E b \in 1..NumBoxes : KAccepted(b) > n

\* anchor a1 ranks before a2 for box b: overlap descending, index ascending
RanksBefore(b, a1, a2) ==
    \/ Greater(Overlap(b, a1), Overlap(b, a2))
    \/ (a1 < a2 /\ ~Greater(Overlap(b, a2), Overlap(b, a1)))
RankOf(b, a) ==
    Cardinality({a1 \in 0..NumAnchors - 1 : a1 # a /\ RanksBefore(b, a1, a)})

Row(b) == iou_index.data[b]
NonSentinel(b) == Cardinality({p \in 1..Len(Row(b)) : Row(b)[p] # Sentinel})
Slots == 1..NumSlots

\* C1: with at least one box and one anchor, slot 0 of every returned row is
\* an anchor index (never -1) and no anchor overlaps the box more than it,
\* also when no overlap of the box exceeds the threshold.
C1_SlotZeroBest ==
    (Returned /\ NumBoxes >= 1 /\ NumAnchors >= 1) =>
        /\ Len(iou_index.data) = NumBoxes
        /\ \A b \in 1..NumBoxes :
             /\ Row(b)[1] \in 0..NumAnchors - 1
             /\ \A a \in 0..NumAnchors - 1 :
                  ~Greater(Overlap(b, a), Overlap(b, Row(b)[1]))

\* a box none of whose overlaps exceeds the threshold, among several anchors
C1_Witness ==
    /\ Returned /\ NumAnchors >= 2
    /\ \E b \in 1..NumBoxes : KAccepted(b) = 0 /\ Row(b)[1] # Sentinel

\* C2: with at least one anchor get_best_anchor returns (no error), and the
\* result has one row per box, 5 slots per row, each slot -1 or an index of
\* the catalog, whatever k is.
C2_ShapeAndRange ==
    /\ (pc # "start" /\ NumAnchors >= 1) => pc # "error"
    /\ Returned =>
         /\ iou_index.shape = <<NumBoxes, NumSlots>>
         /\ Len(iou_index.data) = NumBoxes
         /\ \A b \in 1..NumBoxes :
              /\ Len(Row(b)) = NumSlots
              /\ \A p \in Slots :
                   Row(b)[p] = Sentinel \/ Row(b)[p] \in 0..NumAnchors - 1

\* more than 5 anchors accepted for some box
C2_Witness == Returned /\ NumBoxes >= 2 /\ KOver(NumSlots)

\* C3: a slot 1..4 holds an anchor only if the anchor's overlap with the
\* row's box is strictly greater than the threshold.
C3_LaterSlotsExceed ==
    Returned =>
        \A b \in 1..NumBoxes : \A p \in 2..NumSlots :
            /\ Len(Row(b)) >= p
            /\ Row(b)[p] # Sentinel =>
                 (Row(b)[p] \in 0..NumAnchors - 1 /\ Exceeds(b, Row(b)[p]))

\* a box whose best rejected anchor sits exactly at the threshold, in a slot
\* that top_k filled (another box has more accepted anchors)
C3_Witness ==
    /\ Returned
    /\ \E b \in 1..NumBoxes :
         /\ KAccepted(b) >= 1 /\ KOver(KAccepted(b)) /\ KAccepted(b) < NumSlots
         /\ \E a \in 0..NumAnchors - 1 : AtThreshold(b, a)
         /\ Row(b)[KAccepted(b) + 1] = Sentinel

\* C4: the anchor in a non-sentinel slot p (0-based) is the anchor of rank p
\* of the catalog ordered by overlap descending, then anchor index ascending.
C4_RankedOrder ==
    Returned =>
        \A b \in 1..NumBoxes : \A p \in 1..Len(Row(b)) :
            Row(b)[p] # Sentinel =>
                /\ Row(b)[p] \in 0..NumAnchors - 1
                /\ RankOf(b, Row(b)[p]) = p - 1

\* two anchors of equal overlap in neighbouring slots
C4_Witness ==
    /\ Returned
    /\ \E b \in 1..NumBoxes : \E p \in 1..NumSlots - 1 :
         /\ Row(b)[p] # Sentinel /\ Row(b)[p + 1] # Sentinel
         /\ SameOverlap(b, Row(b)[p], Row(b)[p + 1])
         /\ Row(b)[p] < Row(b)[p + 1]

MinOf(a, b) == IF a < b THEN a ELSE b
MaxOf(a, b) == IF a < b THEN b ELSE a

\* C5 as stated: the row of a box has min(k_accepted + 1, 5) non-sentinel
\* slots and the slots after them are -1.
C5_Original ==
    Returned =>
        \A b \in 1..NumBoxes :
            /\ NonSentinel(b) = MinOf(KAccepted(b) + 1, NumSlots)
            /\ \A p \in Slots :
                 p > MinOf(KAccepted(b) + 1, NumSlots) => Row(b)[p] = Sentinel

\* C5 amended: the row of a box has min(max(k_accepted, 1), 5) non-sentinel
\* slots, the leading ones, and every slot after them is -1 (so the trailing
\* slots are -1 whenever fewer than 5 anchors exceed the threshold).
C5_SlotCount ==
    Returned =>
        \A b \in 1..NumBoxes :
            LET kept == MinOf(MaxOf(KAccepted(b), 1), NumSlots) IN
            \A p \in Slots :
                /\ Len(Row(b)) >= p
                /\ Row(b)[p] # Sentinel <=> p <= kept

\* a box with 2 to 4 accepted anchors
C5_Witness ==
    /\ Returned
    /\ \E b \in 1..NumBoxes :
         /\ KAccepted(b) \in 2..NumSlots - 1
         /\ NonSentinel(b) = KAccepted(b)

\* C6 as stated: with more than 5 anchors accepted for some box the call
\* ends in an error.
C6_Original == (pc \in {"matched", "error"} /\ KOver(NumSlots)) => pc = "error"

\* C6 amended: with more than 5 anchors accepted for some box the call
\* returns, and the row of such a box holds its 5 best-ranked anchors.
C6_TruncatesToFive ==
    (pc \in {"matched", "error"} /\ KOver(NumSlots)) =>
        /\ Returned
        /\ \A b \in 1..NumBoxes :
             /\ Len(Row(b)) = NumSlots
             /\ KAccepted(b) > NumSlots =>
                  \A p \in Slots :
                      /\ Row(b)[p] \in 0..NumAnchors - 1
                      /\ RankOf(b, Row(b)[p]) = p - 1

\* a set of boxes one of which has 6 or more accepted anchors, another fewer
C6_Witness ==
    /\ Returned
    /\ \E b \in 1..NumBoxes : KAccepted(b) > NumSlots /\ NonSentinel(b) = NumSlots
    /\ \E b \in 1..NumBoxes : KAccepted(b) < NumSlots

\* C7: the padded arrays have exactly max_count rows.
C7_PaddedLength ==
    pc = "padded" =>
        /\ padded_boxes.shape[1] = instances
        /\ Len(padded_boxes.data) = instances
        /\ padded_anchors.shape[1] = instances
        /\ Len(padded_anchors.data) = instances

\* more boxes than max_count
C7_Witness == pc = "padded" /\ instances >= 1 /\ NumBoxes > instances

PadRow(n) == [j \in 1..n |-> pad_value]

\* C8: row i of the padded arrays is row i of the input for i below
\* min(len, max_count) and a row of pad_value from len on, the same rows in
\* the box array and in the anchor array.
C8_KeepsPrefixThenPads ==
    pc = "padded" =>
        /\ Len(padded_boxes.data) >= instances
        /\ Len(padded_anchors.data) >= instances
        /\ \A i \in 1..instances :
             IF i <= NumBoxes
             THEN /\ padded_boxes.data[i] = y_true[i]
                  /\ padded_anchors.data[i] = iou_index.data[i]
             ELSE /\ padded_boxes.data[i] = PadRow(4)
                  /\ padded_anchors.data[i] = PadRow(NumSlots)

\* fewer boxes than max_count, with a pad value other than the default
C8_Witness ==
    /\ pc = "padded" /\ NumBoxes >= 1 /\ NumBoxes < instances /\ pad_value # 0
    /\ padded_anchors.data[instances] = PadRow(NumSlots)

\* C9: an input of exactly max_count rows comes back unchanged, and padding
\* a padded array again with the same max_count and pad value changes nothing.
C9_Idempotent ==
    pc = "padded" =>
        /\ NumBoxes = instances =>
             (padded_boxes = BoxTensor(y_true) /\ padded_anchors = iou_index)
        /\ pad_max_instances(padded_boxes, instances, pad_value) = padded_boxes
        /\ pad_max_instances(padded_anchors, instances, pad_value) = padded_anchors

\* as many boxes as max_count
C9_Witness == pc = "padded" /\ NumBoxes = instances /\ instances >= 2

\* C10: with no box and at least one anchor get_best_anchor returns an empty
\* assignment without error, and padding it gives max_count rows of pad_value.
C10_EmptyInstanceSet ==
    (NumBoxes = 0 /\ NumAnchors >= 1 /\ pc # "start") =>
        /\ pc # "error"
        /\ iou_index = [shape |-> <<0, NumSlots>>, data |-> <<>>]
        /\ pc = "padded" =>
             /\ padded_anchors.shape = <<instances, NumSlots>>
             /\ Len(padded_anchors.data) = instances
             /\ \A i \in 1..instances : padded_anchors.data[i] = PadRow(NumSlots)

\* no box, padded to several rows
C10_Witness ==
    /\ pc = "padded" /\ NumBoxes = 0 /\ NumAnchors >= 1 /\ instances >= 2
    /\ Len(padded_anchors.data) = instances

\* C11: for the catalog [[10,13],[16,30],[33,23]] at 416x416 and the single
\* box (0.5, 0.5, 0.05, 0.07), anchor [16,30] (index 1) has the highest IoU
\* and index 1 is in slot 0 of the box's row.
C11_ScenarioBestAnchor ==
    (Returned /\ y_true = <<ScenarioBox>> /\ anchors = ScenarioCatalog) =>
        /\ Greater(Overlap(1, 1), Overlap(1, 0))
        /\ Greater(Overlap(1, 1), Overlap(1, 2))
        /\ Row(1)[1] = 1

\* the scenario has been matched: [16,30] first, then [33,23], then [10,13]
C11_Witness ==
    /\ Returned /\ y_true = <<ScenarioBox>> /\ anchors = ScenarioCatalog
    /\ Row(1) = <<1, 2, 0, Sentinel, Sentinel>>

\* C12 as stated: a box of negative width or height, or an empty catalog,
\* ends the call in an error; no assignment is returned.
Malformed ==
    \/ NumAnchors = 0
    \/ \E b \in 1..NumBoxes : y_true[b][3] < 0 \/ y_true[b][4] < 0
C12_MalformedRejected == (pc # "start" /\ Malformed) => pc = "error"

\* C13: k is computed once over all the boxes, yet the row of every box b
\* is the row that get_best_anchor returns for b alone: the other boxes of
\* the call never change it.
C13_RowOfBoxAlone ==
    Returned =>
        \A b \in 1..NumBoxes :
            get_best_anchor(<<y_true[b]>>, anchors, image_w, image_h,
                            [shape |-> <<1, NumSlots>>, data |-> <<Row(b)>>])

\* two boxes matched together, one with fewer accepted anchors than k
C13_Witness ==
    /\ Returned
    /\ \E b1, b2 \in 1..NumBoxes :
          /\ KAccepted(b1) < KAccepted(b2)
          /\ KAccepted(b1) < NumSlots
          /\ Row(b1)[KAccepted(b2)] = Sentinel

\* C14: in every returned row the sentinels form a suffix and the anchor
\* indices are distinct; an accepted anchor 0 stays 0 in its slot (it is
\* missing from a row only when five anchors rank before it).
C14_SentinelSuffixDistinct ==
    Returned =>
        \A b \in 1..NumBoxes :
            /\ \A p \in 1..NumSlots - 1 :
                  Row(b)[p] = Sentinel => Row(b)[p + 1] = Sentinel
            /\ \A p, q \in Slots :
                  (p < q /\ Row(b)[p] # Sentinel) => Row(b)[p] # Row(b)[q]
            /\ Exceeds(b, 0) =>
                  \/ \E p \in Slots : Row(b)[p] = 0
                  \/ Row(b)[NumSlots] # Sentinel

\* an accepted anchor 0 in a slot after the first, followed by a sentinel
C14_Witness ==
    /\ Returned
    /\ \E b \in 1..NumBoxes : \E p \in 2..NumSlots - 1 :
          /\ Exceeds(b, 0)
          /\ Row(b)[p] = 0
          /\ Row(b)[p + 1] = Sentinel

\* C15 as stated: whenever the box centres are shifted by an offset with
\* t_x != 0 or t_y != 0 the image is translated by the same offset; the
\* image is left untranslated only when t_x = 0 and t_y = 0.
C15_ImageFollowsBoxes ==
    pc = "translated" =>
        /\ (NumBoxes >= 1 /\ (t_x # 0 \/ t_y # 0)) =>
              image.offset = <<JitterPixels(image, t_x), JitterPixels(image, t_y)>>
        /\ image.offset = <<0, 0>> => (t_x = 0 /\ t_y = 0)

====
